---- MODULE Spec2Model ----
(***************************************************************************)
(* A model of wbparser.py (class WildBerriesParser): catalogue flattening, *)
(* category resolution, the paginated crawl of category and search         *)
(* listings, sales enrichment and the export, as run_parser drives them.   *)
(*                                                                         *)
(* Python strings that the code inspects (the user input, category names   *)
(* and urls) are sequences of characters.  The Russian dictionary keys and *)
(* messages are written in Latin letters, with the original in a comment.  *)
(***************************************************************************)
EXTENDS Integers, Sequences, FiniteSets, TLC

VARIABLES
    pc,             \* position of run_parser
    site,           \* which listing/sales source the run talks to
    mode,           \* the answer to the first prompt
    tree,           \* the JSON catalogue (json.load of wb_catalogue.json)
    catalogue,      \* the flattened catalogue (process_catalogue's result)
    user_input,     \* the category name or link, or the search key word
    category_data,  \* extract_category_data's result
    page,           \* the loop variable of the crawl
    pageLog,        \* the listing requests issued so far, in order
    served,         \* the listing responses received so far, in order
    product_cards,  \* self.product_cards
    cursor,         \* position of get_sales_data's loop in product_cards
    lookups,        \* the item ids of the sales requests issued so far
    outcomes,       \* the sales responses received so far, in order
    written,        \* positions of product_cards whose sales key was set
    progress,       \* the <<current, total>> pairs get_sales_data printed
    console,        \* the category messages run_parser printed
    excel,          \* the files save_to_excel wrote
    error           \* the exception that ended the run, "" when none

vars == <<pc, site, mode, tree, catalogue, user_input, category_data, page,
          pageLog, served, product_cards, cursor, lookups, outcomes, written,
          progress, console, excel, error>>

-----------------------------------------------------------------------------
(* Bounds of the inputs.                                                   *)

MaxChilds == 2          \* longest 'childs' list of a generated catalogue
MaxTop == 1             \* longest top-level list of a generated catalogue
MaxCatalogue == 2       \* longest generated flattened catalogue
MaxInputLen == 4        \* longest generated user input
MaxListingPages == 2    \* most non-empty pages of a small listing

SeqsUpTo(S, n) == UNION {[1..k -> S] : k \in 0..n}

-----------------------------------------------------------------------------
(* Strings.                                                                *)

\* "https://www.wildberries.ru": two characters, the second unlike the first,
\* so that, like the real literal, no proper suffix of it is a prefix of it.
Domain == <<"h", "w">>

Alphabet == {"h", "w", "/", "b"}

\* The first position at which sep occurs in s, 0 when it does not (str.find).
Find(s, sep) ==
    LET hits == {i \in 1..(Len(s) - Len(sep) + 1) :
                     SubSeq(s, i, i + Len(sep) - 1) = sep}
    IN IF hits = {} THEN 0 ELSE CHOOSE i \in hits : \A j \in hits : i <= j

\* s.split(sep)[-1]: str.split cuts at the occurrences of sep found from the
\* left, none overlapping another; the last piece follows the last cut.
RECURSIVE SplitLast(_, _)
SplitLast(s, sep) ==
    LET i == Find(s, sep)
    IN IF i = 0 THEN s ELSE SplitLast(SubSeq(s, i + Len(sep), Len(s)), sep)

-----------------------------------------------------------------------------
(* The catalogue and its flattening.                                       *)

FieldKeys == {"name", "url", "shard", "query"}

\* A category of the JSON catalogue: keys are the keys the dict has; the value
\* of a key it lacks is never read.
Node(nm, missing, hasChilds, childs) ==
    [keys   |-> (FieldKeys \ missing) \cup (IF hasChilds THEN {"childs"} ELSE {}),
     name   |-> nm,
     url    |-> <<"/">> \o nm,
     shard  |-> <<"s">> \o nm,
     query  |-> <<"q">> \o nm,
     childs |-> childs]

\* The dict traverse_json appends for a category.
Descriptor(category) ==
    [name  |-> category.name,  url   |-> category.url,
     shard |-> category.shard, query |-> category.query]

\* category['name'], ['url'], ['shard'], ['query'] raise no KeyError.
HasFields(category) == FieldKeys \subseteq category.keys

RECURSIVE traverse_json(_, _)
traverse_json(parent_category, flattened_catalogue) ==
    IF parent_category = <<>> THEN flattened_catalogue
    ELSE LET category == Head(parent_category)
             rest == Tail(parent_category)
         IN IF ~HasFields(category)
            THEN \* except KeyError: continue
                 traverse_json(rest, flattened_catalogue)
            ELSE LET own == Append(flattened_catalogue, Descriptor(category))
                     sub == IF "childs" \in category.keys
                            THEN traverse_json(category.childs, own)
                            ELSE own
                 IN traverse_json(rest, sub)

process_catalogue(json) == traverse_json(json, <<>>)

-----------------------------------------------------------------------------
(* Category resolution.                                                    *)

\* Python's None, as extract_category_data returns it by falling off its end.
None == [found |-> FALSE, name |-> <<>>, shard |-> <<>>, query |-> <<>>]

\* The tuple (category['name'], category['shard'], category['query']).
CategoryTuple(category) ==
    [found |-> TRUE, name |-> category.name,
     shard |-> category.shard, query |-> category.query]

\* The condition of the if in extract_category_data's loop.
Matches(category, input) ==
    \/ SplitLast(input, Domain) = category.url
    \/ input = category.name

\* A resolution that takes the last match instead of the first.
extract_last_match(cat, input) ==
    LET hits == {i \in 1..Len(cat) : Matches(cat[i], input)}
    IN IF hits = {} THEN None
       ELSE CategoryTuple(cat[CHOOSE i \in hits : \A j \in hits : j <= i])

extract_category_data(cat, input) ==
    LET hits == {i \in 1..Len(cat) : Matches(cat[i], input)}
    IN IF hits = {} THEN None
       ELSE CategoryTuple(cat[CHOOSE i \in hits : \A j \in hits : i <= j])

-----------------------------------------------------------------------------
(* Python values stored under a product card's sales key.                  *)

NoKey == [t |-> "absent", i |-> 0, s |-> ""]     \* the key is not in the dict
PyInt(n) == [t |-> "int", i |-> n, s |-> ""]
PyStr(str) == [t |-> "str", i |-> 0, s |-> str]

-----------------------------------------------------------------------------
(* Listing pages and record extraction.                                    *)

ItemA == [id |-> 1, name |-> "a", brand |-> "x", brandId |-> 10,
          priceU |-> 123450, salePriceU |-> 99999, rating |-> 4, feedbacks |-> 3]
ItemB == [id |-> 2, name |-> "b", brand |-> "y", brandId |-> 20,
          priceU |-> 5000, salePriceU |-> 4950, rating |-> 5, feedbacks |-> 0]

\* What requests.get(url).json() gives for a listing page: a dict that has
\* ['data']['products'], a dict that lacks it, or an exception.
ListingOk(products) == [kind |-> "json", hasProducts |-> TRUE, products |-> products]
ListingNoProducts == [kind |-> "json", hasProducts |-> FALSE, products |-> <<>>]
ListingError == [kind |-> "error", hasProducts |-> FALSE, products |-> <<>>]

\* One dict of products_on_page.  Keys, in the source: link 'Ссылка', id
\* 'Артикул', name 'Наименование', brand 'Бренд', brandId 'ID бренда', price
\* 'Цена', salePrice 'Цена со скидкой', rating 'Рейтинг', feedbacks 'Отзывы';
\* sold is 'Продано', which get_sales_data adds.
Card(item) ==
    [link      |-> [catalog |-> item.id],
     id        |-> item.id,
     name      |-> item.name,
     brand     |-> item.brand,
     brandId   |-> item.brandId,
     price     |-> item.priceU \div 100,
     salePrice |-> item.salePriceU \div 100,
     rating    |-> item.rating,
     feedbacks |-> item.feedbacks,
     sold      |-> NoKey]

get_products_on_page(page_data) ==
    [j \in 1..Len(page_data.products) |-> Card(page_data.products[j])]

\* range(1, 101) of the two crawl loops: the last page each asks for.
CategoryLastPageOffByOne == 100 + 1

CategoryLastPage == 100
SearchLastPage == 100

LastPage(m) == IF m = "1" THEN CategoryLastPage ELSE SearchLastPage

\* key_word.split(): the maximal runs of non-blank characters.
RECURSIVE Words(_)
Words(s) ==
    IF s = <<>> THEN <<>>
    ELSE IF Head(s) = " " THEN Words(Tail(s))
    ELSE LET blanks == {i \in 1..Len(s) : s[i] = " "}
             n == IF blanks = {} THEN Len(s)
                  ELSE (CHOOSE i \in blanks : \A j \in blanks : i <= j) - 1
         IN <<SubSeq(s, 1, n)>> \o Words(SubSeq(s, n + 1, Len(s)))

\* '%20'.join(words)
RECURSIVE Join(_)
Join(words) ==
    IF words = <<>> THEN <<>>
    ELSE IF Len(words) = 1 THEN words[1]
    ELSE words[1] \o <<"%20">> \o Join(Tail(words))

\* What identifies the url a crawl loop builds for a page.
Request(m, data, key_word, p) ==
    IF m = "1"
    THEN [endpoint |-> "catalog", shard |-> data.shard, query |-> data.query, page |-> p]
    ELSE [endpoint |-> "search", shard |-> <<>>, query |-> Join(Words(key_word)), page |-> p]

-----------------------------------------------------------------------------
(* Sales lookups.                                                          *)

\* What requests.get(url).json() gives for a sales lookup: a list (empty, or
\* holding one dict with 'qnt'), requests.ConnectTimeout, or another exception.
SalesList(body) == [kind |-> "json", body |-> body]
SalesTimeout == [kind |-> "timeout", body |-> <<>>]
SalesError == [kind |-> "error", body |-> <<>>]

\* A handler that catches every exception of the lookup.
CaughtAny(response) == response.kind \in {"timeout", "error"}

\* except requests.ConnectTimeout
Caught(response) == response.kind = "timeout"

\* A classification that stores the same text for a timeout as for [].
SoldValueCollapsed(response) ==
    IF response.kind # "json" THEN PyStr("neizvestno")
    ELSE IF response.body = <<>> THEN PyStr("neizvestno")
    ELSE PyInt(response.body[1].qnt)

\* The value get_sales_data stores: 'нет данных' in the except clause,
\* 'неизвестно' for [], response[0]['qnt'] otherwise.
SoldValue(response) ==
    IF response.kind # "json" THEN PyStr("net dannyh")
    ELSE IF response.body = <<>> THEN PyStr("neizvestno")
    ELSE PyInt(response.body[1].qnt)

\* An assignment that replaces the card by a dict holding the sales key only.
StoreSoldAlone(cards, i, value) ==
    [cards EXCEPT ![i] = [link |-> [catalog |-> 0], id |-> 0, name |-> "",
                          brand |-> "", brandId |-> 0, price |-> 0,
                          salePrice |-> 0, rating |-> 0, feedbacks |-> 0,
                          sold |-> value]]

\* card['Продано'] = value, card being the dict at position i.
StoreSold(cards, i, value) == [cards EXCEPT ![i].sold = value]

\* list.index(x) + 1: the first position holding a value equal to x.
IndexOf(list, x) ==
    CHOOSE i \in 1..Len(list) :
        list[i] = x /\ \A j \in 1..(i - 1) : list[j] # x

-----------------------------------------------------------------------------
(* The sources the run talks to.                                           *)

\* A small listing has at most MaxListingPages non-empty pages, of any
\* content; an endless listing has one-item pages, as many as the crawl asks
\* for or fewer.  Either may fail on any request.
Sites == {"small", "endless"}

ListingResponses(st, p) ==
    IF st = "small"
    THEN {ListingOk(<<>>), ListingNoProducts, ListingError}
         \cup (IF p <= MaxListingPages
               THEN {ListingOk(<<ItemA>>), ListingOk(<<ItemA, ItemB>>)}
               ELSE {})
    ELSE {ListingOk(<<ItemA>>), ListingOk(<<>>), ListingError}

Quantities == {0, 7}

SalesResponses(st) ==
    IF st = "small"
    THEN {SalesList(<<>>), SalesTimeout, SalesError}
         \cup {SalesList(<<[qnt |-> n]>>) : n \in Quantities}
    ELSE {SalesList(<<[qnt |-> 7]>>), SalesError}

\* The answers to the prompts.
Modes == {"1", "2", "0"}

Shop == Node(<<"b">>, {}, TRUE, <<Node(<<"b", "b">>, {}, FALSE, <<>>)>>)
ShopNoQuery == Node(<<"b">>, {"query"}, TRUE, <<Node(<<"b", "b">>, {}, FALSE, <<>>)>>)

Catalogues == {<<Shop>>, <<ShopNoQuery>>}

CategoryInputs == {<<"b">>, Domain \o <<"/", "b">>, <<"b", "b">>, <<"w">>}

KeyWords == {<<"b">>, <<"b", " ", "b">>}

-----------------------------------------------------------------------------
(* run_parser.                                                             *)

Init ==
    /\ pc = "start"
    /\ site \in Sites
    /\ mode = ""
    /\ tree = <<>>
    /\ catalogue = <<>>
    /\ user_input = <<>>
    /\ category_data = None
    /\ page = 1
    /\ pageLog = <<>>
    /\ served = <<>>
    /\ product_cards = <<>>
    /\ cursor = 1
    /\ lookups = <<>>
    /\ outcomes = <<>>
    /\ written = <<>>
    /\ progress = <<>>
    /\ console = <<>>
    /\ excel = <<>>
    /\ error = ""

\* mode = input(instructons)
ChooseMode ==
    /\ pc = "start"
    /\ \E m \in Modes :
        /\ mode' = m
        /\ pc' = IF m = "1" THEN "category" ELSE IF m = "2" THEN "search" ELSE "done"
    /\ UNCHANGED <<site, tree, catalogue, user_input, category_data, page,
                   pageLog, served, product_cards, cursor, lookups, outcomes,
                   written, progress, console, excel, error>>

\* Mode 1 up to the call of get_all_products_in_category: the catalogue is
\* loaded and flattened, the category read and resolved, the message printed
\* ('Категория не найдена' or 'Найдена категория: ...').
ResolveCategory ==
    /\ pc = "category"
    /\ \E json \in Catalogues, input \in CategoryInputs :
        /\ tree' = json
        /\ catalogue' = process_catalogue(json)
        /\ user_input' = input
        /\ category_data' = extract_category_data(process_catalogue(json), input)
        /\ console' = Append(console,
                             IF extract_category_data(process_catalogue(json), input) = None
                             THEN "Kategoriya ne naydena"
                             ELSE "Naydena kategoriya")
    /\ pc' = "crawl"
    /\ page' = 1
    /\ UNCHANGED <<site, mode, pageLog, served, product_cards, cursor, lookups,
                   outcomes, written, progress, excel, error>>

\* requests.get raises in download_current_catalogue.
CatalogueFails ==
    /\ pc = "category"
    /\ pc' = "crashed"
    /\ error' = "RequestException"
    /\ UNCHANGED <<site, mode, tree, catalogue, user_input, category_data, page,
                   pageLog, served, product_cards, cursor, lookups, outcomes,
                   written, progress, console, excel>>

\* key_word = input(...)
ReadKeyWord ==
    /\ pc = "search"
    /\ \E key_word \in KeyWords : user_input' = key_word
    /\ pc' = "crawl"
    /\ page' = 1
    /\ UNCHANGED <<site, mode, tree, catalogue, category_data, pageLog, served,
                   product_cards, cursor, lookups, outcomes, written, progress,
                   console, excel, error>>

\* get_all_products_in_category(None): category_data[1] raises TypeError
\* while the url of page 1 is built, before any request.
CrawlWithoutCategory ==
    /\ pc = "crawl"
    /\ mode = "1"
    /\ category_data = None
    /\ pc' = "crashed"
    /\ error' = "TypeError"
    /\ UNCHANGED <<site, mode, tree, catalogue, user_input, category_data, page,
                   pageLog, served, product_cards, cursor, lookups, outcomes,
                   written, progress, console, excel>>

\* A test that takes every page for a page with products.
HasProductsAlways(page_data) == TRUE

\* if len(page_data) > 0, in add_data_from_page
HasProducts(page_data) == Len(page_data) > 0

\* Where run_parser goes when a crawl loop ends: get_sales_data, whose loop
\* does nothing on an empty list.
AfterCrawl(cards) == IF cards = <<>> THEN "save" ELSE "sales"

\* One turn of a crawl loop: the url is built and add_data_from_page called.
LoadPage ==
    /\ pc = "crawl"
    /\ mode = "1" => category_data # None
    /\ \E response \in ListingResponses(site, page) :
        /\ pageLog' = Append(pageLog, Request(mode, category_data, user_input, page))
        /\ served' = Append(served, response)
        /\ IF response.kind = "error"
           THEN /\ pc' = "crashed"
                /\ error' = "RequestException"
                /\ UNCHANGED <<page, product_cards>>
           ELSE IF ~response.hasProducts
           THEN \* page_data['data']['products'] raises KeyError
                /\ pc' = "crashed"
                /\ error' = "KeyError"
                /\ UNCHANGED <<page, product_cards>>
           ELSE LET page_data == get_products_on_page(response)
                IN IF HasProducts(page_data)
                   THEN /\ product_cards' = product_cards \o page_data
                        /\ IF page < LastPage(mode)
                           THEN page' = page + 1 /\ pc' = "crawl"
                           ELSE page' = page /\ pc' = AfterCrawl(product_cards')
                        /\ error' = error
                   ELSE \* add_data_from_page returns True: break
                        /\ pc' = AfterCrawl(product_cards)
                        /\ UNCHANGED <<page, product_cards, error>>
    /\ UNCHANGED <<site, mode, tree, catalogue, user_input, category_data,
                   cursor, lookups, outcomes, written, progress, console, excel>>

\* One turn of get_sales_data's loop.
LookupSales ==
    /\ pc = "sales"
    /\ \E response \in SalesResponses(site) :
        /\ lookups' = Append(lookups, product_cards[cursor].id)
        /\ outcomes' = Append(outcomes, response)
        /\ IF response.kind = "json" \/ Caught(response)
           THEN /\ product_cards' = StoreSold(product_cards, cursor, SoldValue(response))
                /\ written' = Append(written, cursor)
                /\ progress' = Append(progress,
                                      <<IndexOf(product_cards', product_cards'[cursor]),
                                        Len(product_cards')>>)
                /\ cursor' = cursor + 1
                /\ pc' = IF cursor < Len(product_cards) THEN "sales" ELSE "save"
                /\ error' = error
           ELSE /\ pc' = "crashed"
                /\ error' = "RequestException"
                /\ UNCHANGED <<product_cards, written, progress, cursor>>
    /\ UNCHANGED <<site, mode, tree, catalogue, user_input, category_data, page,
                   pageLog, served, console, excel>>

\* save_to_excel(category_data[0]) or save_to_excel(key_word), and the
\* message 'Данные сохранены в ...'.
SaveToExcel ==
    /\ pc = "save"
    /\ excel' = Append(excel, [file_name |-> IF mode = "1" THEN category_data.name
                                             ELSE user_input,
                               data |-> product_cards])
    /\ console' = Append(console, "Dannye sohraneny")
    /\ pc' = "done"
    /\ UNCHANGED <<site, mode, tree, catalogue, user_input, category_data, page,
                   pageLog, served, product_cards, cursor, lookups, outcomes,
                   written, progress, error>>

Next ==
    \/ ChooseMode
    \/ ResolveCategory
    \/ CatalogueFails
    \/ ReadKeyWord
    \/ CrawlWithoutCategory
    \/ LoadPage
    \/ LookupSales
    \/ SaveToExcel

Spec == Init /\ [][Next]_vars

-----------------------------------------------------------------------------
(* traverse_json on generated catalogues.                                  *)

NodeNames == {<<"b">>, <<"w">>}

MissingChoices == {{}} \cup {{k} : k \in FieldKeys}

Leaves == {Node(nm, missing, FALSE, <<>>) : nm \in NodeNames, missing \in MissingChoices}

Parents ==
    {Node(nm, missing, TRUE, childs) :
        nm \in NodeNames, missing \in MissingChoices,
        childs \in SeqsUpTo(Leaves, MaxChilds)}

Trees == SeqsUpTo(Leaves \cup Parents, MaxTop)

InitFlatten ==
    /\ pc = "process_catalogue"
    /\ site = "small"
    /\ mode = ""
    /\ tree \in Trees
    /\ catalogue = <<>>
    /\ user_input = <<>>
    /\ category_data = None
    /\ page = 1
    /\ pageLog = <<>>
    /\ served = <<>>
    /\ product_cards = <<>>
    /\ cursor = 1
    /\ lookups = <<>>
    /\ outcomes = <<>>
    /\ written = <<>>
    /\ progress = <<>>
    /\ console = <<>>
    /\ excel = <<>>
    /\ error = ""

ProcessCatalogue ==
    /\ pc = "process_catalogue"
    /\ catalogue' = process_catalogue(tree)
    /\ pc' = "flattened"
    /\ UNCHANGED <<site, mode, tree, user_input, category_data, page, pageLog,
                   served, product_cards, cursor, lookups, outcomes, written,
                   progress, console, excel, error>>

NextFlatten == ProcessCatalogue

SpecFlatten == InitFlatten /\ [][NextFlatten]_vars

-----------------------------------------------------------------------------
(* extract_category_data on generated catalogues and inputs.               *)

CategoryNames == {<<"b">>, <<"/", "b">>}

CategoryUrls == {<<"/", "b">>, <<"/">>}

FlatDescriptors ==
    {[name |-> nm, url |-> u, shard |-> <<"s">> \o u, query |-> <<"q">> \o nm] :
        nm \in CategoryNames, u \in CategoryUrls}

InitResolve ==
    /\ pc = "extract_category_data"
    /\ site = "small"
    /\ mode = ""
    /\ tree = <<>>
    /\ catalogue \in SeqsUpTo(FlatDescriptors, MaxCatalogue)
    /\ user_input \in SeqsUpTo(Alphabet, MaxInputLen)
    /\ category_data = None
    /\ page = 1
    /\ pageLog = <<>>
    /\ served = <<>>
    /\ product_cards = <<>>
    /\ cursor = 1
    /\ lookups = <<>>
    /\ outcomes = <<>>
    /\ written = <<>>
    /\ progress = <<>>
    /\ console = <<>>
    /\ excel = <<>>
    /\ error = ""

ExtractCategory ==
    /\ pc = "extract_category_data"
    /\ category_data' = extract_category_data(catalogue, user_input)
    /\ pc' = "resolved"
    /\ UNCHANGED <<site, mode, tree, catalogue, user_input, page, pageLog,
                   served, product_cards, cursor, lookups, outcomes, written,
                   progress, console, excel, error>>

NextResolve == ExtractCategory

SpecResolve == InitResolve /\ [][NextResolve]_vars

-----------------------------------------------------------------------------
(* Notions the properties are stated in.                                   *)

\* The descriptors of the well-formed categories of a list, at any depth.
RECURSIVE WellFormedIn(_)
WellFormedIn(list) ==
    IF list = <<>> THEN {}
    ELSE LET c == Head(list)
         IN (IF HasFields(c) THEN {Descriptor(c)} ELSE {})
            \cup (IF "childs" \in c.keys THEN WellFormedIn(c.childs) ELSE {})
            \cup WellFormedIn(Tail(list))

\* The descriptors of the well-formed categories that lie below a category
\* lacking a required field.
RECURSIVE UnderMalformed(_)
UnderMalformed(list) ==
    IF list = <<>> THEN {}
    ELSE LET c == Head(list)
             kids == IF "childs" \in c.keys THEN c.childs ELSE <<>>
         IN (IF HasFields(c) THEN UnderMalformed(kids) ELSE WellFormedIn(kids))
            \cup UnderMalformed(Tail(list))

Appears(d, list) == \E i \in 1..Len(list) : list[i] = d

\* The input with everything up to and including the domain removed.
AfterDomain(input) ==
    LET occ == {i \in 1..(Len(input) - Len(Domain) + 1) :
                    SubSeq(input, i, i + Len(Domain) - 1) = Domain}
    IN IF occ = {} THEN input
       ELSE SubSeq(input, (CHOOSE i \in occ : \A j \in occ : j <= i) + Len(Domain),
                   Len(input))

Satisfies(d, input) == d.url = AfterDomain(input) \/ d.name = input

\* The descriptor at the smallest index that satisfies either condition.
FirstSatisfying(cat, input) ==
    IF \E i \in 1..Len(cat) : Satisfies(cat[i], input)
    THEN CategoryTuple(cat[CHOOSE i \in 1..Len(cat) :
                              /\ Satisfies(cat[i], input)
                              /\ \A j \in 1..(i - 1) : ~Satisfies(cat[j], input)])
    ELSE None

\* A page that yielded zero records, and one that yielded at least one.
ZeroRecords(response) ==
    response.kind = "json" /\ response.hasProducts /\ response.products = <<>>

SomeRecords(response) ==
    response.kind = "json" /\ response.hasProducts /\ response.products # <<>>

RECURSIVE ItemIds(_)
ItemIds(responses) ==
    IF responses = <<>> THEN <<>>
    ELSE [j \in 1..Len(Head(responses).products) |-> Head(responses).products[j].id]
         \o ItemIds(Tail(responses))

\* The records the pages received so far hold, as the crawl accumulated them.
RECURSIVE Accumulated(_)
Accumulated(responses) ==
    IF responses = <<>> THEN <<>>
    ELSE (IF SomeRecords(Head(responses))
          THEN [j \in 1..Len(Head(responses).products) |->
                    Card(Head(responses).products[j])]
          ELSE <<>>)
         \o Accumulated(Tail(responses))

WithoutSales(cards) == [j \in 1..Len(cards) |-> [cards[j] EXCEPT !.sold = NoKey]]

OutcomeClass(response) ==
    IF response.kind = "timeout" THEN "Unknown"
    ELSE IF response.body = <<>> THEN "Unavailable"
    ELSE "Count"

NotFoundRun == mode = "1" /\ pc \notin {"start", "category"} /\ category_data = None

-----------------------------------------------------------------------------
(* The properties.                                                         *)

\* C1: once a catalogue is flattened, the output holds descriptors of
\* well-formed categories only, and every well-formed category below a
\* category that lacks a required field appears in it.
C1_SkippedNodeKeepsDescendants ==
    pc = "flattened" =>
        /\ \A i \in 1..Len(catalogue) : catalogue[i] \in WellFormedIn(tree)
        /\ \A d \in UnderMalformed(tree) : Appears(d, catalogue)

\* C2: a category run whose input matches no descriptor issues no listing
\* request and no sales lookup, writes no file and raises no exception.
C2_NotFoundSkipsCrawl ==
    NotFoundRun =>
        /\ error = ""
        /\ pageLog = <<>>
        /\ lookups = <<>>
        /\ excel = <<>>

\* C3: the j-th listing request asks for page j; and when page k <= 100 yields
\* zero records, it is the last page requested, the crawl is over, and the
\* accumulated records are those of pages 1..k-1, in page order and in the
\* order within each page.
C3_StopsAtFirstEmptyPage ==
    /\ \A j \in 1..Len(pageLog) : pageLog[j].page = j
    /\ \A k \in 1..Len(served) :
        (ZeroRecords(served[k]) /\ k <= 100) =>
            /\ Len(served) = k
            /\ Len(pageLog) = k
            /\ pc \notin {"crawl", "crashed"} \/ (pc = "crashed" /\ outcomes # <<>>)
            /\ [j \in 1..Len(product_cards) |-> product_cards[j].id]
                   = ItemIds(SubSeq(served, 1, k - 1))

C3_Witness ==
    /\ pc = "done"
    /\ Len(served) = 3
    /\ ZeroRecords(served[3])
    /\ Len(served[1].products) = 2
    /\ Len(product_cards) = 3

\* C4: a crawl issues at most 100 listing requests, for pages 1..100; after
\* 100 pages that each yielded a record the crawl is over, without an error
\* of its own, and the run is in sales enrichment or past it.
C4_StopsAtPage100 ==
    /\ Len(pageLog) <= 100
    /\ \A j \in 1..Len(pageLog) : pageLog[j].page <= 100
    /\ (Len(served) = 100 /\ \A j \in 1..100 : SomeRecords(served[j])) =>
            /\ pc \in {"sales", "save", "done", "crashed"}
            /\ pc = "crashed" => (outcomes # <<>> /\ error = "RequestException")
            /\ Len(product_cards) >= 100

C4_Witness ==
    /\ pc = "done"
    /\ mode = "1"
    /\ Len(pageLog) = 100
    /\ \A j \in 1..100 : SomeRecords(served[j])
    /\ Len(excel) = 1

\* C5: a lookup that returned a quantity n is stored as the integer n, and
\* two lookups of different outcome (quantity, empty result, timeout) are
\* never stored as the same value, in product_cards and in the file written.
C5_OutcomesStayDistinct ==
    \A data \in {product_cards} \cup {excel[e].data : e \in 1..Len(excel)} :
        LET StoredFor(class) ==
                {data[j].sold : j \in {i \in 1..Len(written) :
                                          OutcomeClass(outcomes[i]) = class}}
        IN /\ \A j \in 1..Len(written) :
                  OutcomeClass(outcomes[j]) = "Count"
                      => data[j].sold = PyInt(outcomes[j].body[1].qnt)
           /\ StoredFor("Count") \cap StoredFor("Unavailable") = {}
           /\ StoredFor("Count") \cap StoredFor("Unknown") = {}
           /\ StoredFor("Unavailable") \cap StoredFor("Unknown") = {}

C5_Witness ==
    /\ pc = "done"
    /\ \E j, k, l \in 1..Len(written) :
        /\ OutcomeClass(outcomes[j]) = "Count"
        /\ OutcomeClass(outcomes[k]) = "Unavailable"
        /\ OutcomeClass(outcomes[l]) = "Unknown"
        /\ product_cards[j].id = product_cards[l].id

\* C6: sales enrichment changes nothing of the accumulated records but the
\* sales value: the records, their number and their order stay; the j-th
\* lookup is for the j-th record and the j-th write is to the j-th record;
\* when enrichment is complete every record had one lookup and one write.
C6_EnrichmentKeepsRecords ==
    /\ WithoutSales(product_cards) = Accumulated(served)
    /\ \A j \in 1..Len(lookups) : lookups[j] = product_cards[j].id
    /\ \A j \in 1..Len(written) : written[j] = j
    /\ \A j \in 1..Len(product_cards) :
           (product_cards[j].sold # NoKey) <=> (j <= Len(written))
    /\ pc \in {"save", "done"} =>
           /\ Len(lookups) = Len(product_cards)
           /\ Len(written) = Len(product_cards)
    /\ \A e \in 1..Len(excel) : excel[e].data = product_cards

C6_Witness ==
    /\ pc = "done"
    /\ Len(product_cards) >= 3
    /\ \E j, k \in 1..Len(product_cards) :
           j < k /\ WithoutSales(product_cards)[j] = WithoutSales(product_cards)[k]

\* C7: a listing response whose item list is empty or absent ends the crawl
\* as the normal stop: no exception is raised for it.
C7_EmptyOrAbsentListStops ==
    \A k \in 1..Len(served) :
        (served[k].kind = "json" /\ (~served[k].hasProducts \/ served[k].products = <<>>))
            => /\ error # "KeyError"
               /\ pc # "crawl"

\* C8, as stated: the result is the first descriptor satisfying either
\* condition, None when there is none, and an input that is the name or the
\* full url of a descriptor resolves to that descriptor.
C8_NameAndUrlResolveToDescriptor ==
    pc = "resolved" =>
        /\ category_data = FirstSatisfying(catalogue, user_input)
        /\ \A i \in 1..Len(catalogue) :
               (user_input = catalogue[i].name \/ user_input = Domain \o catalogue[i].url)
                   => category_data = CategoryTuple(catalogue[i])

\* C8, amended: the result is the first descriptor satisfying either
\* condition, None when there is none, and an input that is the name or the
\* full url of a descriptor resolves to that descriptor when no descriptor
\* before it satisfies either condition for that input.
C8_FirstMatchWins ==
    pc = "resolved" =>
        /\ category_data = FirstSatisfying(catalogue, user_input)
        /\ (\A i \in 1..Len(catalogue) : ~Satisfies(catalogue[i], user_input))
               => category_data = None
        /\ \A i \in 1..Len(catalogue) :
               (/\ user_input = catalogue[i].name \/ user_input = Domain \o catalogue[i].url
                /\ \A j \in 1..(i - 1) : ~Satisfies(catalogue[j], user_input))
                   => category_data = CategoryTuple(catalogue[i])

C8_Witness ==
    /\ pc = "resolved"
    /\ Len(catalogue) = 2
    /\ user_input = Domain \o catalogue[2].url
    /\ ~Satisfies(catalogue[1], user_input)
    /\ category_data = CategoryTuple(catalogue[2])
    /\ category_data = extract_category_data(catalogue, catalogue[2].name)

\* C9: a lookup that timed out left 'нет данных' in its record and did not end
\* the run: enrichment went on to the next record, and a completed enrichment
\* looked every record up.  A failed listing request, and a lookup that failed
\* otherwise, is the last request of the run, which then has crashed and
\* written no file.
C9_OnlyTimeoutIsRecovered ==
    /\ \A j \in 1..Len(outcomes) :
        outcomes[j].kind = "timeout" =>
            /\ j <= Len(written)
            /\ product_cards[j].sold = PyStr("net dannyh")
            /\ j < Len(product_cards) =>
                   (Len(lookups) > j \/ (pc = "sales" /\ cursor = j + 1))
            /\ j = Len(product_cards) => pc \in {"save", "done"}
    /\ pc \in {"save", "done"} => Len(lookups) = Len(product_cards)
    /\ \A k \in 1..Len(served) :
        served[k].kind = "error" =>
            /\ k = Len(served)
            /\ Len(pageLog) = k
            /\ lookups = <<>>
            /\ pc = "crashed"
    /\ \A j \in 1..Len(outcomes) :
        outcomes[j].kind = "error" =>
            /\ j = Len(outcomes)
            /\ Len(lookups) = j
            /\ pc = "crashed"
    /\ pc = "crashed" => excel = <<>>

C9_Witness ==
    /\ pc = "crashed"
    /\ Len(outcomes) = 3
    /\ outcomes[1].kind = "timeout"
    /\ outcomes[3].kind = "error"
    /\ Len(product_cards) = 4

\* C10: the j-th progress line of an enrichment pass reports j of n, n being
\* the number of accumulated records.
C10_ProgressCountsRecords ==
    \A j \in 1..Len(progress) : progress[j] = <<j, Len(product_cards)>>

====
